---------------------------- MODULE Spec2Model ----------------------------
(***************************************************************************)
(* Gray-image encryption (utils.py, encrypt.py, decrypt.py, main.py).      *)
(*                                                                         *)
(* A grid or block is a sequence of rows, each row a sequence of integers. *)
(* The source indexes from 0; At(m, r, c) reads the cell the source calls  *)
(* m[r, c].  A call that raises in the source yields a record whose err    *)
(* field names the exception.                                              *)
(***************************************************************************)
EXTENDS Integers, Sequences, FiniteSets

VARIABLES
    pc,          \* position of the running call
    key,         \* the key string, a sequence of one-character strings
    permute,     \* encrypt/decrypt argument
    rounds,      \* encrypt/decrypt argument
    img,         \* the grid handed to blocks / encrypt
    block_size,  \* the block size handed to blocks
    height,      \* height, width = img.shape of the running call
    width,
    cur,         \* encrypted_image / decrypted_img / the block being transformed
    rnd,         \* loop variable of the running round loop
    chars,       \* the schedules of the running call: [bss, xrs, yrs]
    blk_list,    \* value returned by blocks: the block list
    shape,       \* value returned by blocks: the padded shape in blocks
    block,       \* the block handed to diffuse or to the substitution
    xs_rnd,      \* starting cell handed to diffuse / undiffuse
    ys_rnd,
    flat,        \* diffuse: the concatenated diagonals, then the rolled array
    encrypted,   \* value returned by encrypt
    log,         \* the rounds decrypt has executed, in order
    err          \* the exception that ended the call, or "none"

vars == <<pc, key, permute, rounds, img, block_size, height, width, cur, rnd,
          chars, blk_list, shape, block, xs_rnd, ys_rnd, flat, encrypted, log, err>>

----------------------------------------------------------------------------
(* Bounds of the model *)

\* largest block side in the diffusion specification
MaxN == 5
\* largest grid height and width in the partition specification
MaxDim == 3
\* largest block size in the partition specification
MaxBlock == 3
\* largest intensity in the substitution specification
MaxVal == 2
\* largest block side in the substitution specification
MaxSubN == 2
\* largest grid height and width in the pipeline specification
MaxImg == 3
\* longest key in the key-schedule specification
MaxKeyLen == 34

----------------------------------------------------------------------------
(* Array primitives used by the source (numpy / scipy) *)

Ok(v) == [err |-> "none", val |-> v]
Raise(e) == [err |-> e, val |-> 0]

Rows(m) == Len(m)
Cols(m) == IF Len(m) = 0 THEN 0 ELSE Len(m[1])
Shape(m) == <<Rows(m), Cols(m)>>
At(m, r, c) == m[r + 1][c + 1]

Min2(a, b) == IF a < b THEN a ELSE b

Reverse(s) == [i \in 1..Len(s) |-> s[Len(s) + 1 - i]]

\* arr[::-1] and np.flipud(arr)
flipud(m) == Reverse(m)

\* np.transpose of a 2-D array of shape (rows, cols)
transpose(m) == [c \in 1..Cols(m) |-> [r \in 1..Rows(m) |-> m[r][c]]]

\* np.diagonal(m, k): the cells m[i, i + k] by increasing i
np_diagonal(m, k) ==
    LET i0 == IF k < 0 THEN -k ELSE 0
        n  == IF k < 0 THEN Min2(Rows(m) + k, Cols(m)) ELSE Min2(Rows(m), Cols(m) - k)
    IN  [j \in 1..(IF n < 0 THEN 0 ELSE n) |-> At(m, i0 + j - 1, i0 + j - 1 + k)]

\* s[::step] for step 1 or -1
slice_step(s, step) == IF step = 1 THEN s ELSE Reverse(s)

RECURSIVE np_concatenate(_)
np_concatenate(ss) == IF Len(ss) = 0 THEN <<>> ELSE Head(ss) \o np_concatenate(Tail(ss))

\* np.roll(s, by): the element at index i moves to index (i + by) mod len
np_roll(s, by) ==
    IF Len(s) = 0 THEN s
    ELSE [i \in 1..Len(s) |-> s[((i - 1 - by) % Len(s)) + 1]]

\* np.split(s, sections) into equal parts
np_split(s, sections) ==
    LET w == Len(s) \div sections
    IN  [g \in 1..sections |-> [j \in 1..w |-> s[(g - 1) * w + j]]]

\* m.ravel(): row after row
ravel(m) == np_concatenate(m)

\* s[a:b]
slice(s, a, b) ==
    LET hi == Min2(b, Len(s))
    IN  IF hi <= a THEN <<>> ELSE [j \in 1..(hi - a) |-> s[a + j]]

\* scipy.sparse.diags(diagonals, offsets).toarray() for a square matrix of side n:
\* diagonal number i (offset i - n) is laid on the cells [r, r + k] by increasing r
sparse_diags(diagonals, n) ==
    [r \in 1..n |-> [c \in 1..n |->
        LET k  == c - r
            i0 == IF k < 0 THEN -k ELSE 0
        IN  diagonals[k + n][r - i0]]]

----------------------------------------------------------------------------
(* utils.py *)

MASTER_KEY ==
    << "8","0","b","3", "3","2","1","6", "c","7","7","2", "5","4","7","c",
       "5","b","0","b", "3","4","d","c", "6","a","d","f", "5","5","d","9" >>

HEX_DIGIT_MAP ==
    [d \in {"0","1","2","3","4","5","6","7","8","9","a","b","c","d","e","f"} |->
        CASE d = "0" -> 0 [] d = "1" -> 1 [] d = "2" -> 2 [] d = "3" -> 3
          [] d = "4" -> 4 [] d = "5" -> 5 [] d = "6" -> 6 [] d = "7" -> 7
          [] d = "8" -> 8 [] d = "9" -> 9 [] d = "a" -> 10 [] d = "b" -> 11
          [] d = "c" -> 12 [] d = "d" -> 13 [] d = "e" -> 14 [] d = "f" -> 15]

\* hex2dec reading the upper-case digits A-F as well
hex2dec_any_case(digit) ==
    IF digit \in DOMAIN HEX_DIGIT_MAP THEN Ok(HEX_DIGIT_MAP[digit])
    ELSE IF digit \in {"A", "B", "C", "D", "E", "F"}
         THEN Ok(CASE digit = "A" -> 10 [] digit = "B" -> 11 [] digit = "C" -> 12
                   [] digit = "D" -> 13 [] digit = "E" -> 14 [] digit = "F" -> 15)
         ELSE Raise("KeyError")

\* HEX_DIGIT_MAP[digit]; a digit that is no key of the map raises KeyError
hex2dec(digit) ==
    IF digit \in DOMAIN HEX_DIGIT_MAP THEN Ok(HEX_DIGIT_MAP[digit]) ELSE Raise("KeyError")

\* key[i]; an index past the end raises IndexError
key_at(k, i) == IF i >= Len(k) THEN Raise("IndexError") ELSE hex2dec(k[i + 1])

\* the flipped matrix's diagonals, offsets 1 - n .. n - 1
matrix_diagonals(arr) ==
    [i \in 1..(2 * Rows(arr) - 1) |-> np_diagonal(flipud(arr), i - Rows(arr))]

RECURSIVE cumsum(_, _)
cumsum(lens, acc) ==
    IF Len(lens) = 0 THEN <<>> ELSE <<acc + Head(lens)>> \o cumsum(Tail(lens), acc + Head(lens))

\* the split points of the zig-zag array: 0 followed by the running sum of the sizes
indices(size) ==
    LET diagonals == matrix_diagonals([r \in 1..size |-> [c \in 1..size |-> 0]])
    IN  <<0>> \o cumsum([i \in 1..Len(diagonals) |-> Len(diagonals[i])], 0)

\* comparator((x, y)) = (x + y, -y if (x + y) % 2 else y)
comparator(pos) ==
    LET x == pos[1]
        y == pos[2]
    IN  <<x + y, IF (x + y) % 2 # 0 THEN -y ELSE y>>

TupleLess(a, b) == a[1] < b[1] \/ (a[1] = b[1] /\ a[2] < b[2])

\* shift(height, width): the rank of every (x, y) in the sorted list
shift(h, w) ==
    LET positions == (0..(w - 1)) \X (0..(h - 1))
    IN  [pos \in positions |->
            Cardinality({q \in positions : TupleLess(comparator(q), comparator(pos))})]

\* shift(h, w)[(x, y)]; a missing key raises KeyError
shift_lookup(h, w, x, y) ==
    IF <<x, y>> \in DOMAIN shift(h, w) THEN Ok(shift(h, w)[<<x, y>>]) ELSE Raise("KeyError")

\* the digits key[base + p - 1], p in ps, summed in loop order; the first read that
\* raises ends the sum
RECURSIVE sum_digits(_, _, _, _)
sum_digits(k, base, ps, acc) ==
    IF Len(ps) = 0 THEN Ok(acc)
    ELSE LET d == key_at(k, base + Head(ps) - 1)
         IN  IF d.err # "none" THEN d ELSE sum_digits(k, base, Tail(ps), acc + d.val)

NumRounds == 8

\* one pass of the loop body of diffusion_characteristics: b, x and y of round r
diffusion_round(k, r) ==
    LET b == sum_digits(k, 4 * (r - 1), <<1, 2, 3, 4>>, 0)
        x == sum_digits(k, 4 * (r - 1), <<1, 2, 3>>, 0)
        y == sum_digits(k, 4 * (r - 1), <<2, 3, 4>>, 0)
    IN  IF b.err # "none" THEN b
        ELSE IF x.err # "none" THEN x
        ELSE IF y.err # "none" THEN y
        ELSE Ok(<<b.val, x.val, y.val>>)

RECURSIVE diffusion_loop(_, _, _)
diffusion_loop(k, r, acc) ==
    IF r > NumRounds THEN Ok(acc)
    ELSE LET one == diffusion_round(k, r)
         IN  IF one.err # "none" THEN one
             ELSE diffusion_loop(k, r + 1,
                      [bss |-> Append(acc.bss, one.val[1]),
                       xrs |-> Append(acc.xrs, one.val[2]),
                       yrs |-> Append(acc.yrs, one.val[3])])

\* diffusion_characteristics(key): the lists bss, xrs, yrs of the eight rounds
diffusion_characteristics(k) ==
    diffusion_loop(k, 1, [bss |-> <<>>, xrs |-> <<>>, yrs |-> <<>>])

\* substitution_base reading the slices in the order of the diffusion rounds
substitution_base_forward(r) == 4 * (r - 1)

\* the base index 4 * (8 - rnd) of round rnd of substitution_characteristics
substitution_base(r) == 4 * (NumRounds - r)

RECURSIVE substitution_loop(_, _, _)
substitution_loop(k, r, acc) ==
    IF r > NumRounds THEN Ok(acc)
    ELSE LET b == sum_digits(k, substitution_base(r), <<1, 2, 3>>, 0)
         IN  IF b.err # "none" THEN b
             ELSE substitution_loop(k, r + 1, Append(acc, b.val))

\* substitution_characteristics(key): the block sizes of the eight rounds
substitution_characteristics(k) == substitution_loop(k, 1, <<>>)

\* np.pad(matrix, ((0, vpad), (0, hpad)), constant_values=0)
np_pad(m, vpad, hpad) ==
    [r \in 1..(Rows(m) + vpad) |-> [c \in 1..(Cols(m) + hpad) |->
        IF r <= Rows(m) /\ c <= Cols(m) THEN m[r][c] ELSE 0]]

\* out[i : i + b, j : j + b]
sub_block(out, i, j, b) == [r \in 1..b |-> [c \in 1..b |-> At(out, i + r - 1, j + c - 1)]]

\* blocks(matrix, block_size): (the blocks, row after row of blocks; the padded shape
\* in blocks).  height % 0 raises ZeroDivisionError
blocks(matrix, b) ==
    IF b = 0 THEN Raise("ZeroDivisionError")
    ELSE LET h    == Rows(matrix)
             w    == Cols(matrix)
             vpad == IF h % b # 0 THEN b - (h % b) ELSE 0
             hpad == IF w % b # 0 THEN b - (w % b) ELSE 0
             out  == np_pad(matrix, vpad, hpad)
             ni   == Rows(out) \div b
             nj   == Cols(out) \div b
         IN  Ok([blks  |-> [n \in 1..(ni * nj) |->
                              sub_block(out, ((n - 1) \div nj) * b, ((n - 1) % nj) * b, b)],
                 shape |-> <<Rows(out) \div b, Cols(out) \div b>>])

\* np.hstack of blocks of equal height
np_hstack(bs) ==
    IF Len(bs) = 0 THEN <<>>
    ELSE [r \in 1..Rows(bs[1]) |-> np_concatenate([n \in 1..Len(bs) |-> bs[n][r]])]

\* the number of blocks merge puts side by side in one row of the result
merge_row_length(shp) == shp[1]

\* merge(blks, shape): rows of merge_row_length(shape) blocks, stacked
merge(blks, shp) ==
    LET step   == merge_row_length(shp)
        nrows  == (Len(blks) + step - 1) \div step
        strips == [i \in 1..nrows |-> np_hstack(slice(blks, (i - 1) * step, i * step))]
    IN  np_concatenate(strips)

\* arr[:h, :w]
crop(m, h, w) ==
    [r \in 1..Min2(h, Rows(m)) |-> [c \in 1..Min2(w, Cols(m)) |-> m[r][c]]]

RECURSIVE SeqMax(_)
SeqMax(s) == IF Len(s) = 1 THEN s[1]
             ELSE LET m == SeqMax(Tail(s)) IN IF s[1] > m THEN s[1] ELSE m

\* line[line < max] = max - line[line < max]
reflect(line) ==
    LET max == SeqMax(line)
    IN  [i \in 1..Len(line) |-> IF line[i] < max THEN max - line[i] ELSE line[i]]

\* row_transform(block): every row reflected about its maximum
row_transform(b) == [r \in 1..Rows(b) |-> reflect(b[r])]

\* column_transform(block): every column reflected about its maximum
column_transform(b) == transpose([c \in 1..Cols(b) |-> reflect(transpose(b)[c])])

----------------------------------------------------------------------------
(* encrypt.py: diffuse *)

\* diffuse_step with the two directions exchanged
diffuse_step_flipped(k) == 1 - 2 * (k % 2)

\* the step 2 * (k % 2) - 1 diffuse gives the diagonal of offset k
diffuse_step(k) == 2 * (k % 2) - 1

\* np.concatenate of the diagonals of block[::-1, :], each read with diffuse_step
diffuse_concat(b) ==
    np_concatenate([i \in 1..(Rows(b) + Cols(b) - 1) |->
        slice_step(np_diagonal(flipud(b), i - Rows(b)), diffuse_step(i - Rows(b)))])

\* the shift diffuse hands to np.roll
diffuse_roll(rank) == -(rank - 1)

\* np.transpose(np.split(rolled, block.shape[1]))
diffuse_reshape(rolled, n) == transpose(np_split(rolled, n))

\* diffuse(block, xs_rnd, ys_rnd)
diffuse(b, x, y) ==
    LET rank == shift_lookup(Rows(b), Cols(b), x, y)
    IN  IF rank.err # "none" THEN rank
        ELSE Ok(diffuse_reshape(np_roll(diffuse_concat(b), diffuse_roll(rank.val)), Cols(b)))

----------------------------------------------------------------------------
(* decrypt.py: undiffuse *)

\* the step 2 * (i % 2) - 1 undiffuse gives diagonal number i
undiffuse_step(i) == 2 * (i % 2) - 1

\* the matrix undiffuse returns for the array laid out by sparse.diags
undiffuse_orient(d) == transpose(flipud(d))

\* undiffuse(diffused, xs_rnd, ys_rnd).  np.array of the runs, which differ in length,
\* is taken as the array of objects numpy built when the source was written (a
\* later numpy refuses the ragged list with ValueError for every side above 1)
undiffuse(d, x, y) ==
    LET n    == Rows(d)
        rank == shift_lookup(n, n, x, y)
    IN  IF rank.err # "none" THEN rank
        ELSE LET indexes   == indices(n)
                 raveled   == np_roll(ravel(transpose(d)), rank.val - 1)
                 diagonals == [i \in 1..(Len(indexes) - 1) |->
                                  slice_step(slice(raveled, indexes[i], indexes[i + 1]),
                                             undiffuse_step(i - 1))]
             IN  Ok(undiffuse_orient(sparse_diags(diagonals, n)))

----------------------------------------------------------------------------
(* Inputs *)

\* the h x w grid holding 1, 2, ... row after row
SeqGrid(h, w) == [r \in 1..h |-> [c \in 1..w |-> (r - 1) * w + c]]

NoChars == [bss |-> <<>>, xrs |-> <<>>, yrs |-> <<>>]

----------------------------------------------------------------------------
(* Specification SpecDiffuse: diffuse(block, x, y), then undiffuse of its result
   with the same x and y.  diffuse is followed through its nested calls:
   np.concatenate, np.roll (whose shift is the rank looked up in shift), and
   np.transpose(np.split). *)

InitDiffuse ==
    /\ pc = "diffuse_concat"
    /\ \E n \in 1..MaxN :
          /\ block = SeqGrid(n, n)
          /\ xs_rnd \in 0..n
          /\ ys_rnd \in 0..n
    /\ flat = <<>>
    /\ cur = <<>>
    /\ err = "none"
    /\ key = <<>> /\ permute = FALSE /\ rounds = 0 /\ img = <<>> /\ block_size = 0
    /\ height = 0 /\ width = 0 /\ rnd = 0 /\ chars = NoChars /\ blk_list = <<>>
    /\ shape = <<0, 0>> /\ encrypted = <<>> /\ log = <<>>

DiffuseConcat ==
    /\ pc = "diffuse_concat"
    /\ flat' = diffuse_concat(block)
    /\ pc' = "diffuse_roll"
    /\ UNCHANGED <<key, permute, rounds, img, block_size, height, width, cur, rnd, chars,
                   blk_list, shape, block, xs_rnd, ys_rnd, encrypted, log, err>>

DiffuseRoll ==
    /\ pc = "diffuse_roll"
    /\ LET rank == shift_lookup(Rows(block), Cols(block), xs_rnd, ys_rnd)
       IN  IF rank.err # "none"
           THEN /\ pc' = "error"
                /\ err' = rank.err
                /\ flat' = flat
           ELSE /\ pc' = "diffuse_reshape"
                /\ err' = err
                /\ flat' = np_roll(flat, diffuse_roll(rank.val))
    /\ UNCHANGED <<key, permute, rounds, img, block_size, height, width, cur, rnd, chars,
                   blk_list, shape, block, xs_rnd, ys_rnd, encrypted, log>>

DiffuseReshape ==
    /\ pc = "diffuse_reshape"
    /\ cur' = diffuse_reshape(flat, Cols(block))
    /\ pc' = "undiffuse"
    /\ UNCHANGED <<key, permute, rounds, img, block_size, height, width, rnd, chars,
                   blk_list, shape, block, xs_rnd, ys_rnd, flat, encrypted, log, err>>

Undiffuse ==
    /\ pc = "undiffuse"
    /\ LET res == undiffuse(cur, xs_rnd, ys_rnd)
       IN  IF res.err # "none"
           THEN /\ pc' = "error"
                /\ err' = res.err
                /\ cur' = cur
           ELSE /\ pc' = "undiffused"
                /\ err' = err
                /\ cur' = res.val
    /\ UNCHANGED <<key, permute, rounds, img, block_size, height, width, rnd, chars,
                   blk_list, shape, block, xs_rnd, ys_rnd, flat, encrypted, log>>

NextDiffuse == DiffuseConcat \/ DiffuseRoll \/ DiffuseReshape \/ Undiffuse

SpecDiffuse == InitDiffuse /\ [][NextDiffuse]_vars

----------------------------------------------------------------------------
(* Specification SpecPartition: blocks(img, block_size), merge of the unmodified
   blocks with the returned shape, and the crop [:height, :width]. *)

InitPartition ==
    /\ pc = "blocks"
    /\ \E h \in 1..MaxDim, w \in 1..MaxDim : img = SeqGrid(h, w)
    /\ block_size \in 0..MaxBlock
    /\ blk_list = <<>>
    /\ shape = <<0, 0>>
    /\ cur = <<>>
    /\ err = "none"
    /\ key = <<>> /\ permute = FALSE /\ rounds = 0 /\ height = 0 /\ width = 0
    /\ rnd = 0 /\ chars = NoChars /\ block = <<>> /\ xs_rnd = 0 /\ ys_rnd = 0
    /\ flat = <<>> /\ encrypted = <<>> /\ log = <<>>

Blocks ==
    /\ pc = "blocks"
    /\ LET res == blocks(img, block_size)
       IN  IF res.err # "none"
           THEN /\ pc' = "error"
                /\ err' = res.err
                /\ UNCHANGED <<blk_list, shape>>
           ELSE /\ pc' = "merge"
                /\ err' = err
                /\ blk_list' = res.val.blks
                /\ shape' = res.val.shape
    /\ UNCHANGED <<key, permute, rounds, img, block_size, height, width, cur, rnd, chars,
                   block, xs_rnd, ys_rnd, flat, encrypted, log>>

Merge ==
    /\ pc = "merge"
    /\ cur' = merge(blk_list, shape)
    /\ pc' = "crop"
    /\ UNCHANGED <<key, permute, rounds, img, block_size, height, width, rnd, chars,
                   blk_list, shape, block, xs_rnd, ys_rnd, flat, encrypted, log, err>>

Crop ==
    /\ pc = "crop"
    /\ cur' = crop(cur, Rows(img), Cols(img))
    /\ pc' = "cropped"
    /\ UNCHANGED <<key, permute, rounds, img, block_size, height, width, rnd, chars,
                   blk_list, shape, block, xs_rnd, ys_rnd, flat, encrypted, log, err>>

NextPartition == Blocks \/ Merge \/ Crop

SpecPartition == InitPartition /\ [][NextPartition]_vars

----------------------------------------------------------------------------
(* Specification SpecSubstitution: the composite of an encryption round,
   column_transform(row_transform(blk)), then the composite of a decryption
   round, row_transform(column_transform(blk)), on one block. *)

InitSubstitution ==
    /\ pc = "enc_row"
    /\ \E n \in 1..MaxSubN : block \in [1..n -> [1..n -> 0..MaxVal]]
    /\ cur = block
    /\ err = "none"
    /\ key = <<>> /\ permute = TRUE /\ rounds = 0 /\ img = <<>> /\ block_size = 0
    /\ height = 0 /\ width = 0 /\ rnd = 0 /\ chars = NoChars /\ blk_list = <<>>
    /\ shape = <<0, 0>> /\ xs_rnd = 0 /\ ys_rnd = 0 /\ flat = <<>>
    /\ encrypted = <<>> /\ log = <<>>

SubstitutionFrame ==
    UNCHANGED <<key, permute, rounds, img, block_size, height, width, rnd, chars,
                blk_list, shape, block, xs_rnd, ys_rnd, flat, encrypted, log, err>>

EncRowTransform ==
    /\ pc = "enc_row"
    /\ cur' = row_transform(cur)
    /\ pc' = "enc_column"
    /\ SubstitutionFrame

EncColumnTransform ==
    /\ pc = "enc_column"
    /\ cur' = column_transform(cur)
    /\ pc' = "dec_column"
    /\ SubstitutionFrame

DecColumnTransform ==
    /\ pc = "dec_column"
    /\ cur' = column_transform(cur)
    /\ pc' = "dec_row"
    /\ SubstitutionFrame

DecRowTransform ==
    /\ pc = "dec_row"
    /\ cur' = row_transform(cur)
    /\ pc' = "substituted"
    /\ SubstitutionFrame

NextSubstitution ==
    EncRowTransform \/ EncColumnTransform \/ DecColumnTransform \/ DecRowTransform

SpecSubstitution == InitSubstitution /\ [][NextSubstitution]_vars

----------------------------------------------------------------------------
(* Specification SpecKey: the two key-schedule calls encrypt makes on a key,
   diffusion_characteristics(key) and then bss = substitution_characteristics(key).
   The keys are the two keys of main.py, with at most one 4-digit slice replaced,
   cut or padded to every length up to MaxKeyLen. *)

\* the key of the commented-out assignment in main()
MAIN_KEY ==
    << "0","2","2","9", "6","f","c","0", "4","d","6","3", "f","5","2","c",
       "a","6","9","6", "6","b","0","2", "2","3","8","e", "d","8","f","e" >>

BaseKeys == {MASTER_KEY, MAIN_KEY}

EditSlices ==
    { <<"0","0","0","0">>, <<"1","0","0","0">>, <<"0","0","0","1">>,
      <<"8","0","B","3">>, <<"g","1","1","1">> }

PadChars == {"0", "z"}

\* k with its slice number q (1..8) replaced by sl; q = 0 leaves k as it is
EditKey(k, q, sl) ==
    [i \in 1..Len(k) |->
        IF q >= 1 /\ i > 4 * (q - 1) /\ i <= 4 * q THEN sl[i - 4 * (q - 1)] ELSE k[i]]

\* k cut to n characters, or padded to n characters with c
ResizeKey(k, n, c) == [i \in 1..n |-> IF i <= Len(k) THEN k[i] ELSE c]

KeyInputs ==
    { ResizeKey(EditKey(base, q, sl), n, c) :
        base \in BaseKeys, q \in 0..NumRounds, sl \in EditSlices,
        n \in 0..MaxKeyLen, c \in PadChars }

InitKey ==
    /\ pc = "diffusion_characteristics"
    /\ key \in KeyInputs
    /\ rounds \in 1..NumRounds
    /\ chars = NoChars
    /\ err = "none"
    /\ permute = TRUE /\ img = <<>> /\ block_size = 0 /\ height = 0 /\ width = 0
    /\ cur = <<>> /\ rnd = 0 /\ blk_list = <<>> /\ shape = <<0, 0>> /\ block = <<>>
    /\ xs_rnd = 0 /\ ys_rnd = 0 /\ flat = <<>> /\ encrypted = <<>> /\ log = <<>>

KeyFrame ==
    UNCHANGED <<key, permute, rounds, img, block_size, height, width, cur, rnd,
                blk_list, shape, block, xs_rnd, ys_rnd, flat, encrypted, log>>

DiffusionCharacteristics ==
    /\ pc = "diffusion_characteristics"
    /\ LET res == diffusion_characteristics(key)
       IN  IF res.err # "none"
           THEN /\ pc' = "error"
                /\ err' = res.err
                /\ chars' = chars
           ELSE /\ pc' = "substitution_characteristics"
                /\ err' = err
                /\ chars' = res.val
    /\ KeyFrame

SubstitutionCharacteristics ==
    /\ pc = "substitution_characteristics"
    /\ LET res == substitution_characteristics(key)
       IN  IF res.err # "none"
           THEN /\ pc' = "error"
                /\ err' = res.err
                /\ chars' = chars
           ELSE /\ pc' = "scheduled"
                /\ err' = err
                /\ chars' = [chars EXCEPT !.bss = res.val]
    /\ KeyFrame

NextKey == DiffusionCharacteristics \/ SubstitutionCharacteristics

SpecKey == InitKey /\ [][NextKey]_vars

----------------------------------------------------------------------------
(* encrypt.py, decrypt.py: one pass of a round loop body *)

\* the first exception among the results, "none" when no call raised
RECURSIVE first_error(_)
first_error(results) ==
    IF Len(results) = 0 THEN "none"
    ELSE IF Head(results).err # "none" THEN Head(results).err
    ELSE first_error(Tail(results))

\* column_transform(row_transform(blk)), the block transform of encrypt
encrypt_substitute(blk) == Ok(column_transform(row_transform(blk)))

\* row_transform(column_transform(blk)), the block transform of decrypt
decrypt_substitute(blk) == Ok(row_transform(column_transform(blk)))

\* the call a round loop makes on each block: diffuse and undiffuse take the
\* round's x and y, the substitutions do not
block_transform(kind, blk, x, y) ==
    CASE kind = "diffuse" -> diffuse(blk, x, y)
      [] kind = "undiffuse" -> undiffuse(blk, x, y)
      [] kind = "encrypt_substitute" -> encrypt_substitute(blk)
      [] kind = "decrypt_substitute" -> decrypt_substitute(blk)

\* blk_list, shape = blocks(image, b); every block transformed in list order;
\* merge(transformed, shape)[:h, :w]
round_body(image, b, kind, x, y, h, w) ==
    LET part == blocks(image, b)
    IN  IF part.err # "none" THEN part
        ELSE LET outs == [i \in 1..Len(part.val.blks) |->
                             block_transform(kind, part.val.blks[i], x, y)]
                 e    == first_error(outs)
             IN  IF e # "none" THEN Raise(e)
                 ELSE Ok([image |-> crop(merge([i \in 1..Len(outs) |-> outs[i].val],
                                               part.val.shape), h, w),
                          blks  |-> part.val.blks,
                          shape |-> part.val.shape])

\* whether i is produced by range(start, stop, step) once the loop variable has
\* reached i
in_range(i, stop, step) == IF step > 0 THEN i < stop ELSE i > stop

\* range(rounds - 1, -1 -1): the stop and the step of decrypt's substitution loop
dec_substitute_stop == -1 - 1
dec_substitute_step == 1

\* range(rounds - 1, -1, -1): the stop and the step of decrypt's diffusion loop
dec_undiffuse_stop == -1
dec_undiffuse_step == -1

----------------------------------------------------------------------------
(* Specification Spec: main(), that is encrypt(img, key, permute, rounds) and then
   decrypt of its result with the same key, permute and rounds.  Every round loop
   is one action: a pass of the body, or the exit and the statements up to the
   next loop.  The keys are made of 4-digit slices that give small block sizes,
   slices a and b alternating. *)

PipelineSlices ==
    { <<"1","0","0","1">>, <<"1","0","1","1">>, <<"2","0","0","2">>,
      <<"0","0","0","0">>, <<"1","0","0","0">>, <<"g","0","0","1">> }

PipelineKeys ==
    { a \o b \o a \o b \o a \o b \o a \o b : a \in PipelineSlices, b \in PipelineSlices }

Init ==
    /\ pc = "encrypt"
    /\ \E h \in 1..MaxImg, w \in 1..MaxImg : img = SeqGrid(h, w)
    /\ key \in PipelineKeys
    /\ permute \in BOOLEAN
    /\ rounds \in 1..NumRounds
    /\ height = 0 /\ width = 0 /\ cur = <<>> /\ rnd = 0 /\ chars = NoChars
    /\ blk_list = <<>> /\ shape = <<0, 0>> /\ encrypted = <<>> /\ log = <<>>
    /\ err = "none"
    /\ block_size = 0 /\ block = <<>> /\ xs_rnd = 0 /\ ys_rnd = 0 /\ flat = <<>>

PipelineFrame ==
    UNCHANGED <<key, permute, rounds, img, block_size, block, xs_rnd, ys_rnd, flat>>

\* the call ends with exception e
Abort(e) ==
    /\ pc' = "error"
    /\ err' = e
    /\ UNCHANGED <<height, width, cur, rnd, chars, blk_list, shape, encrypted, log>>

\* a pass of a loop body that produced res, the loop variable moving to next_rnd
RoundDone(res, next_rnd) ==
    /\ cur' = res.image
    /\ blk_list' = res.blks
    /\ shape' = res.shape
    /\ rnd' = next_rnd
    /\ UNCHANGED <<pc, err, height, width, chars, encrypted>>

\* encrypt.py 62-64: the shape, the copy and the diffusion schedule
EncryptBegin ==
    /\ pc = "encrypt"
    /\ LET res == diffusion_characteristics(key)
       IN  IF res.err # "none" THEN Abort(res.err)
           ELSE /\ height' = Rows(img)
                /\ width' = Cols(img)
                /\ cur' = img
                /\ chars' = res.val
                /\ rnd' = 0
                /\ pc' = "enc_diffuse"
                /\ UNCHANGED <<blk_list, shape, encrypted, log, err>>
    /\ PipelineFrame

\* encrypt.py 67-76: the diffusion loop, and on its exit the substitution schedule
EncDiffuseRound ==
    /\ pc = "enc_diffuse"
    /\ IF in_range(rnd, rounds, 1)
       THEN LET res == round_body(cur, chars.bss[rnd + 1], "diffuse",
                                  chars.xrs[rnd + 1], chars.yrs[rnd + 1], height, width)
            IN  IF res.err # "none" THEN Abort(res.err)
                ELSE RoundDone(res.val, rnd + 1) /\ log' = log
       ELSE IF permute
            THEN LET sub == substitution_characteristics(key)
                 IN  IF sub.err # "none" THEN Abort(sub.err)
                     ELSE /\ chars' = [chars EXCEPT !.bss = sub.val]
                          /\ rnd' = 0
                          /\ pc' = "enc_substitute"
                          /\ UNCHANGED <<height, width, cur, blk_list, shape,
                                         encrypted, log, err>>
            ELSE /\ pc' = "enc_return"
                 /\ UNCHANGED <<height, width, cur, rnd, chars, blk_list, shape,
                                encrypted, log, err>>
    /\ PipelineFrame

\* encrypt.py 77-82: the substitution loop
EncSubstituteRound ==
    /\ pc = "enc_substitute"
    /\ IF in_range(rnd, rounds, 1)
       THEN LET res == round_body(cur, chars.bss[rnd + 1], "encrypt_substitute",
                                  0, 0, height, width)
            IN  IF res.err # "none" THEN Abort(res.err)
                ELSE RoundDone(res.val, rnd + 1) /\ log' = log
       ELSE /\ pc' = "enc_return"
            /\ UNCHANGED <<height, width, cur, rnd, chars, blk_list, shape,
                           encrypted, log, err>>
    /\ PipelineFrame

\* encrypt.py 87 and main.py 21-23: encrypt returns, its result goes to decrypt
EncryptReturn ==
    /\ pc = "enc_return"
    /\ encrypted' = cur
    /\ pc' = "decrypt"
    /\ UNCHANGED <<height, width, cur, rnd, chars, blk_list, shape, log, err>>
    /\ PipelineFrame

\* decrypt.py 63-68 with permute, 63-64 and 79 without.  The schedule calls cannot
\* raise here: encrypt made the same calls on the same key
DecryptBegin ==
    /\ pc = "decrypt"
    /\ height' = Rows(encrypted)
    /\ width' = Cols(encrypted)
    /\ cur' = encrypted
    /\ rnd' = rounds - 1
    /\ IF permute
       THEN LET sub == substitution_characteristics(key)
            IN  /\ chars' = [chars EXCEPT !.bss = sub.val]
                /\ pc' = "dec_substitute"
       ELSE LET res == diffusion_characteristics(key)
            IN  /\ chars' = res.val
                /\ pc' = "dec_undiffuse"
    /\ UNCHANGED <<blk_list, shape, encrypted, log, err>>
    /\ PipelineFrame

\* decrypt.py 69-79: the substitution loop, and on its exit the diffusion schedule
DecSubstituteRound ==
    /\ pc = "dec_substitute"
    /\ IF in_range(rnd, dec_substitute_stop, dec_substitute_step)
       THEN LET res == round_body(cur, chars.bss[rnd + 1], "decrypt_substitute",
                                  0, 0, height, width)
            IN  IF res.err # "none" THEN Abort(res.err)
                ELSE /\ RoundDone(res.val, rnd + dec_substitute_step)
                     /\ log' = Append(log, <<"substitute", rnd + 1>>)
       ELSE LET res == diffusion_characteristics(key)
            IN  /\ chars' = res.val
                /\ rnd' = rounds - 1
                /\ pc' = "dec_undiffuse"
                /\ UNCHANGED <<height, width, cur, blk_list, shape, encrypted, log, err>>
    /\ PipelineFrame

\* decrypt.py 80-88: the diffusion loop
DecUndiffuseRound ==
    /\ pc = "dec_undiffuse"
    /\ IF in_range(rnd, dec_undiffuse_stop, dec_undiffuse_step)
       THEN LET res == round_body(cur, chars.bss[rnd + 1], "undiffuse",
                                  chars.xrs[rnd + 1], chars.yrs[rnd + 1], height, width)
            IN  IF res.err # "none" THEN Abort(res.err)
                ELSE /\ RoundDone(res.val, rnd + dec_undiffuse_step)
                     /\ log' = Append(log, <<"undiffuse", rnd + 1>>)
       ELSE /\ pc' = "done"
            /\ UNCHANGED <<height, width, cur, rnd, chars, blk_list, shape,
                           encrypted, log, err>>
    /\ PipelineFrame

Next ==
    \/ EncryptBegin
    \/ EncDiffuseRound
    \/ EncSubstituteRound
    \/ EncryptReturn
    \/ DecryptBegin
    \/ DecSubstituteRound
    \/ DecUndiffuseRound

Spec == Init /\ [][Next]_vars

----------------------------------------------------------------------------
(* Claims *)

\* C1: without substitution, decrypt(encrypt(grid, key, false, rounds), key, false,
\* rounds) equals grid cell for cell, whatever the grid's shape and the key.
C1_RoundTrip == (pc = "done" /\ ~permute) => cur = img

\* C2: undiffuse(diffuse(block, x, y), x, y) equals block, for odd and for even sides
\* and every starting cell of the block.
C2_DiffusionInverse == pc = "undiffused" => cur = block

\* C3: merging the unmodified blocks of blocks(grid, b) and cropping to the grid's
\* height and width gives the grid back; when b divides both dimensions the merge
\* alone gives the grid back.
C3_PartitionMergeIdentity ==
    /\ pc = "cropped" => cur = img
    /\ (pc = "crop" /\ Rows(img) % block_size = 0 /\ Cols(img) % block_size = 0)
          => cur = img

\* C4: after the merge-and-crop of every round of encrypt and of decrypt the working
\* grid has the height and the width of the input image.
C4_DimensionInvariant ==
    pc \in {"enc_diffuse", "enc_substitute", "enc_return", "dec_substitute",
            "dec_undiffuse", "done"}
        => Shape(cur) = Shape(img)

\* the rounds decrypt is to execute with substitution enabled
C5_Expected(n) ==
    [i \in 1..(2 * n) |->
        IF i <= n THEN <<"substitute", n + 1 - i>> ELSE <<"undiffuse", 2 * n + 1 - i>>]

\* C5: with substitution enabled decrypt executes the substitution rounds
\* r = rounds .. 1, then the undiffuse rounds r = rounds .. 1.
C5_DecryptOrder == (pc = "done" /\ permute) => log = C5_Expected(rounds)

C6_HexDigits ==
    {"0","1","2","3","4","5","6","7","8","9","a","b","c","d","e","f",
     "A","B","C","D","E","F"}

C6_LowerHexDigits ==
    {"0","1","2","3","4","5","6","7","8","9","a","b","c","d","e","f"}

\* C6 as claimed: the key schedule fails exactly when the key holds a character that
\* is no hexadecimal digit or has fewer than 4 * rounds characters.
C6_KeyAcceptance ==
    pc # "diffusion_characteristics" =>
        ((pc = "error") <=>
            \/ \E i \in 1..Len(key) : key[i] \notin C6_HexDigits
            \/ Len(key) < 4 * rounds)

\* the first min(len, 32) characters of the key
C6_ReadPrefix == 1..Min2(Len(key), 32)

\* C6 as amended: whatever rounds is, the key schedule fails exactly when the key has
\* fewer than 32 characters or one of its first 32 characters is not one of
\* 0-9, a-f; it fails with KeyError when such a character comes before the end of
\* the key and with IndexError otherwise; an accepted key gives the schedule of all
\* eight rounds.
C6_KeyAcceptanceAmended ==
    pc # "diffusion_characteristics" =>
        /\ (pc = "error") <=>
              \/ Len(key) < 32
              \/ \E i \in C6_ReadPrefix : key[i] \notin C6_LowerHexDigits
        /\ pc = "error" =>
              err = IF \E i \in C6_ReadPrefix : key[i] \notin C6_LowerHexDigits
                    THEN "KeyError" ELSE "IndexError"
        /\ pc # "error" =>
              Len(chars.bss) = 8 /\ Len(chars.xrs) = 8 /\ Len(chars.yrs) = 8

\* C6 witness: sixteen valid digits with rounds = 4 are rejected.
C6_Witness ==
    /\ pc = "error"
    /\ err = "IndexError"
    /\ Len(key) = 16
    /\ rounds = 4
    /\ \A i \in 1..Len(key) : key[i] \in C6_LowerHexDigits

\* the sum of the digits at offsets 0, 1, 2 of the slice of round q, which starts at
\* position 4 * (q - 1)
C7_SliceSum(q) ==
    HEX_DIGIT_MAP[key[4 * (q - 1) + 1]] + HEX_DIGIT_MAP[key[4 * (q - 1) + 2]]
        + HEX_DIGIT_MAP[key[4 * (q - 1) + 3]]

\* C7 as claimed: s_r is the sum of the digits at offsets 0, 1, 2 of the slice of
\* diffusion round 8 - r.
C7_SubstitutionSchedule ==
    pc = "scheduled" =>
        \A r \in 1..8 : (8 - r) \in 1..8 /\ chars.bss[r] = C7_SliceSum(8 - r)

\* C7 as amended: s_r is the sum of the digits at offsets 0, 1, 2 of the slice of
\* diffusion round 9 - r.
C7_SubstitutionScheduleAmended ==
    pc = "scheduled" => \A r \in 1..8 : chars.bss[r] = C7_SliceSum(9 - r)

\* C7 witness: the schedule of MASTER_KEY, whose s_1 = 5 + 5 + 13 comes from the
\* last slice 55d9.
C7_Witness == pc = "scheduled" /\ key = MASTER_KEY /\ chars.bss[1] = 23

\* (x, y) read as (row, col) under "rc" and as (col, row) under "cr"
C8_Rank(n, r, c, reading) ==
    shift(n, n)[IF reading = "rc" THEN <<r, c>> ELSE <<c, r>>]

\* the flat sequence f lists the cells of b in rank order under the reading
C8_InRankOrder(b, f, reading) ==
    \A r \in 0..(Rows(b) - 1), c \in 0..(Cols(b) - 1) :
        f[C8_Rank(Rows(b), r, c, reading) + 1] = At(b, r, c)

\* C8 as claimed: under one reading of (x, y), the same for every block size, the
\* sequence diffuse concatenates lists the cells in the rank order of shift.
C8_ZigZagAgreement ==
    pc = "diffuse_roll" =>
        \E reading \in {"rc", "cr"} :
            /\ C8_InRankOrder(block, flat, reading)
            /\ \A m \in 1..MaxN :
                  C8_InRankOrder(SeqGrid(m, m), diffuse_concat(SeqGrid(m, m)), reading)

\* the row and the column of the cell of SeqGrid(n, n) that holds v
C8_RowOf(v, n) == (v - 1) \div n
C8_ColOf(v, n) == (v - 1) % n

\* C8 as amended: the sequence diffuse concatenates lists the cells in the rank
\* order of shift with (x, y) read as (row, col) when the side is even and as
\* (col, row) when the side is odd; a diagonal is read by increasing column exactly
\* when row + col and the side are both even or both odd.
C8_ZigZagAgreementAmended ==
    pc = "diffuse_roll" =>
        LET n == Rows(block)
        IN  /\ C8_InRankOrder(block, flat, IF n % 2 = 0 THEN "rc" ELSE "cr")
            /\ \A p \in 1..(Len(flat) - 1) :
                  LET r1 == C8_RowOf(flat[p], n)
                      c1 == C8_ColOf(flat[p], n)
                      r2 == C8_RowOf(flat[p + 1], n)
                      c2 == C8_ColOf(flat[p + 1], n)
                  IN  IF r1 + c1 = r2 + c2
                      THEN (c2 > c1) <=> ((r1 + c1) % 2 = n % 2)
                      ELSE r2 + c2 = r1 + c1 + 1

\* C8 witness: a block of odd side 3 whose concatenated diagonals follow the
\* (col, row) reading and not the (row, col) reading.
C8_Witness ==
    /\ pc = "diffuse_roll"
    /\ Rows(block) = 3
    /\ C8_InRankOrder(block, flat, "cr")
    /\ ~C8_InRankOrder(block, flat, "rc")

\* C9: row_transform(column_transform(.)) applied to
\* column_transform(row_transform(block)) gives block back, zero cells and duplicate
\* maxima included.
C9_SubstitutionInverse == pc = "substituted" => cur = block

\* C10: every key of 32 valid hex digits gives, for every round, b >= 1,
\* 0 <= x < b and 0 <= y < b.
C10_UsableParameters ==
    (pc = "substitution_characteristics" /\ Len(key) = 32) =>
        \A r \in 1..8 :
            /\ chars.bss[r] >= 1
            /\ 0 <= chars.xrs[r] /\ chars.xrs[r] < chars.bss[r]
            /\ 0 <= chars.yrs[r] /\ chars.yrs[r] < chars.bss[r]

============================================================================
